---- MODULE Spec2Model ----
(***************************************************************************)
(* CoinMarketCap.ipynb: the data pipeline of section I of the notebook.    *)
(*                                                                         *)
(* A run is one execution of the notebook's code cells, top to bottom, in  *)
(* a fresh kernel.  A cell that raises an uncaught exception stops the     *)
(* run (the remaining cells are not executed, the kernel stays alive);     *)
(* exit(1) ends the process with status 1.  The API, the bucket, the       *)
(* warehouse and the local file system are the environment: their state    *)
(* survives from one run to the next.                                      *)
(*                                                                         *)
(* Text (keys, column names, CSV cells) is a tuple of one-character        *)
(* strings, so that strip, replace and join are computed, not assumed.     *)
(***************************************************************************)
EXTENDS Integers, Sequences, FiniteSets, TLC

\* ------------------------------------------------------------------ bounds
MaxRuns == 2
MaxAssets == 2
MaxKeyLen == 2

\* ------------------------------------------------------- notebook globals
bucket_name == "coin-market-cap-bucket"
csv_file_name == "cmc_data.csv"
log_file_name == "coinmarketcap.log"
local_path == "/tmp/" \o csv_file_name

\* ------------------------------------------------------------------- text
\* The characters the model's keys use, in code-point order.
Alphabet ==
    <<" ", ".", "0", "1", "2", "3", "4", "5", "6", "7", "8", "9", "D", "S", "U", "_",
      "a", "c", "d", "e", "g", "h", "i", "m", "n", "o", "p", "q", "r", "t", "u">>

Ord(c) == CHOOSE i \in DOMAIN Alphabet : Alphabet[i] = c

RECURSIVE LexLess(_, _)
\* s < t for Python strings: by code point, a proper prefix first.
LexLess(s, t) ==
    IF t = <<>> THEN FALSE
    ELSE IF s = <<>> THEN TRUE
    ELSE IF Head(s) # Head(t) THEN Ord(Head(s)) < Ord(Head(t))
    ELSE LexLess(Tail(s), Tail(t))

\* the whitespace str.strip() removes
IsSpace(c) == c \in {" ", "\t", "\n"}

RECURSIVE LStrip(_)
LStrip(s) == IF s # <<>> /\ IsSpace(Head(s)) THEN LStrip(Tail(s)) ELSE s

RECURSIVE RStrip(_)
RStrip(s) ==
    IF s # <<>> /\ IsSpace(s[Len(s)]) THEN RStrip(SubSeq(s, 1, Len(s) - 1)) ELSE s

\* x.strip()
Strip(s) == RStrip(LStrip(s))

RECURSIVE Replace_First(_, _, _)
\* Mutant of Replace: only the first occurrence is replaced.
Replace_First(s, old, new) ==
    IF s = <<>> THEN <<>>
    ELSE IF Head(s) = old THEN <<new>> \o Tail(s)
    ELSE <<Head(s)>> \o Replace_First(Tail(s), old, new)

\* x.replace(old, new), old and new single characters
Replace(s, old, new) == [i \in DOMAIN s |-> IF s[i] = old THEN new ELSE s[i]]

\* x.strip().replace('.', '_')
Sanitize(x) == Replace(Strip(x), ".", "_")

Digit(d) == <<"0", "1", "2", "3", "4", "5", "6", "7", "8", "9">>[d + 1]

RECURSIVE ToStr(_)
\* str(n) of a natural number
ToStr(n) == IF n < 10 THEN <<Digit(n)>> ELSE ToStr(n \div 10) \o <<Digit(n % 10)>>

\* ------------------------------------------------------------ JSON records
\* An asset record is a nested JSON object; it is held as the map from the
\* path of each of its scalar leaves (a tuple of keys) to the leaf's value.
K_id == <<"i", "d">>
K_sp_id == <<" ", "i", "d">>
K_quote == <<"q", "u", "o", "t", "e">>
K_USD == <<"U", "S", "D">>
K_price == <<"p", "r", "i", "c", "e">>
K_quote_USD_price == K_quote \o <<"_">> \o K_USD \o <<"_">> \o K_price

K_name == <<"n", "a", "m", "e">>
K_percent_change_7d ==
    <<"p", "e", "r", "c", "e", "n", "t", "_", "c", "h", "a", "n", "g", "e", "_", "7", "d">>

P_name == <<K_name>>
P_percent_change_7d == <<K_quote, K_USD, K_percent_change_7d>>
P_id == <<K_id>>
P_sp_id == <<K_sp_id>>
P_price == <<K_quote, K_USD, K_price>>
P_flat_price == <<K_quote_USD_price>>

LeafPaths == {P_id, P_sp_id, P_price, P_flat_price}
LeafValues == {1}

AssetRecords == UNION {[S -> LeafValues] : S \in SUBSET LeafPaths}

RECURSIVE SeqsUpTo(_, _)
\* the sequences over S of length at most n
SeqsUpTo(S, n) ==
    IF n = 0 THEN {<<>>}
    ELSE LET shorter == SeqsUpTo(S, n - 1)
         IN  shorter \cup {Append(q, x) : q \in {r \in shorter : Len(r) = n - 1}, x \in S}

DataArrays == SeqsUpTo(AssetRecords, MaxAssets)

\* --------------------------------------------------------- json_normalize
RECURSIVE JoinSep(_)
\* nested_to_record: the keys of a path joined with sep='.'
JoinSep(path) ==
    IF Len(path) = 1 THEN path[1] ELSE path[1] \o <<".">> \o JoinSep(Tail(path))

\* One record flattened: flattened key -> value.
Flatten(rec) ==
    [k \in {JoinSep(p) : p \in DOMAIN rec} |->
        rec[CHOOSE p \in DOMAIN rec : JoinSep(p) = k]]

RECURSIVE SortedSeq(_)
\* The column index of a frame built from a list of dicts: the union of the
\* keys, sorted.
SortedSeq(S) ==
    IF S = {} THEN <<>>
    ELSE LET m == CHOOSE x \in S : \A y \in S : x = y \/ LexLess(x, y)
         IN  <<m>> \o SortedSeq(S \ {m})

NumCell(v) == [t |-> "num", n |-> v, s |-> <<>>]
NaN == [t |-> "nan", n |-> 0, s |-> <<>>]
StrCell(text) == [t |-> "str", n |-> 0, s |-> text]

\* Mutant of json_normalize: the columns are taken from the first record only.
json_normalize_FirstRecord(data) ==
    LET flat(i) == Flatten(data[i])
        cols == SortedSeq(IF data = <<>> THEN {} ELSE DOMAIN flat(1))
    IN  [columns |-> cols,
         rows |-> [i \in DOMAIN data |->
                     [j \in DOMAIN cols |->
                        IF cols[j] \in DOMAIN flat(i)
                        THEN NumCell(flat(i)[cols[j]])
                        ELSE NaN]]]

\* json_normalize(crypto_data_list): one row per record, one column per
\* flattened key of any record, NaN where a record has no such key.
json_normalize(data) ==
    LET flat(i) == Flatten(data[i])
        cols == SortedSeq(UNION {DOMAIN flat(i) : i \in DOMAIN data})
    IN  [columns |-> cols,
         rows |-> [i \in DOMAIN data |->
                     [j \in DOMAIN cols |->
                        IF cols[j] \in DOMAIN flat(i)
                        THEN NumCell(flat(i)[cols[j]])
                        ELSE NaN]]]

\* df.columns = [x.strip().replace('.', '_') for x in df.columns]
RenameColumns(df) ==
    [df EXCEPT !.columns = [j \in DOMAIN df.columns |-> Sanitize(df.columns[j])]]

\* Mutant of FillNa: the missing values are filled with 0.
FillNa_Zero(df, v) ==
    [df EXCEPT !.rows = [i \in DOMAIN df.rows |->
        [j \in DOMAIN df.rows[i] |->
            IF df.rows[i][j].t = "nan" THEN NumCell(0) ELSE df.rows[i][j]]]]

\* df.fillna(value=v, inplace=True)
FillNa(df, v) ==
    [df EXCEPT !.rows = [i \in DOMAIN df.rows |->
        [j \in DOMAIN df.rows[i] |->
            IF df.rows[i][j].t = "nan" THEN StrCell(v) ELSE df.rows[i][j]]]]

\* The text to_csv writes for a cell (na_rep is '' by default).
CellText(c) ==
    CASE c.t = "num" -> ToStr(c.n)
      [] c.t = "str" -> c.s
      [] c.t = "nan" -> <<>>

\* df.to_csv(path, index=False): the header line, then one line per row.
ToCsv(df) ==
    <<df.columns>> \o
    [i \in DOMAIN df.rows |-> [j \in DOMAIN df.rows[i] |-> CellText(df.rows[i][j])]]

\* bq.Schema.from_data(df): a field per column, typed from the column's dtype
\* (a column holding any string is an object column, hence STRING).
SchemaFromData(df) ==
    [j \in DOMAIN df.columns |->
        [name |-> df.columns[j],
         type |-> IF \A i \in DOMAIN df.rows : df.rows[i][j].t = "num"
                  THEN "INTEGER" ELSE "STRING"]]

\* The frame cell 2 saves: normalize, sanitize the column names, fill NaN.
Snapshot(data) == FillNa(RenameColumns(json_normalize(data)), <<>>)

\* ------------------------------------------------------------ environment
\* What the market-data API can answer.  A 200 body carries the data array,
\* any other status a status.error_message.
Asset1 == (P_id :> 1) @@ (P_price :> 5)
Asset2 == (P_id :> 2) @@ (P_price :> 10)
Asset3 == (P_id :> 3)

Payloads == {<<Asset1>>, <<Asset2>>, <<Asset1, Asset3>>}

ErrorResponses ==
    {[is_none |-> FALSE, status_code |-> 401, error_message |-> "This API Key is invalid.", data |-> <<>>],
     [is_none |-> FALSE, status_code |-> 429, error_message |-> "You've exceeded your API Key's HTTP request rate limit.", data |-> <<>>]}

OkResponses ==
    {[is_none |-> FALSE, status_code |-> 200, error_message |-> "", data |-> d] : d \in Payloads}

\* What api_call returns when requests raises: nothing (None).
None == [is_none |-> TRUE, status_code |-> 0, error_message |-> "", data |-> <<>>]

\* The environment of the kernel process, which the %%bash cell inherits: the
\* notebook never exports its Python variables, so the shell variables of the
\* clean-up cell are set only if the environment happens to define them.
Environments ==
    {[local_path |-> "", log_file_name |-> ""],
     [local_path |-> local_path, log_file_name |-> log_file_name]}

NoFile == [exists |-> FALSE, lines |-> <<>>]
File(lines) == [exists |-> TRUE, lines |-> lines]

NoResult == [ran |-> FALSE, ok |-> FALSE, names |-> <<>>]
NoTable == [exists |-> FALSE, schema |-> <<>>, rows |-> <<>>]
Undefined == [defined |-> FALSE, fields |-> <<>>]

\* ---------------------------------------------------------------- logging
\* logging.basicConfig(filename=..., format=...) sets no level: the root
\* logger keeps its default, WARNING.
root_level == "WARNING"

LevelNo(levelname) ==
    CASE levelname = "INFO" -> 20
      [] levelname = "WARNING" -> 30
      [] levelname = "ERROR" -> 40

\* logging.info / logging.error on the root logger, whose only handler
\* appends to the log file: a record below the root level is dropped.
LogCall(file, levelname, msg, args) ==
    IF LevelNo(levelname) >= LevelNo(root_level)
    THEN [file EXCEPT !.lines = Append(@, [levelname |-> levelname, msg |-> msg, args |-> args])]
    ELSE file

MsgStart == "############### SCRIPT START ###############"
MsgStep1 == "Step 1 - Pull CoinMarketCap API data - Complete"
MsgStep2 == "Step 2 - Save CSV File - Complete"
MsgStep3 == "Step 3 - Upload to GCS Bucket - Complete"
MsgStep4 == "Step 4 - Insert into BigQuery Table - Complete"
MsgEnd == "############### SCRIPT END ###############"
MsgApiError == "Error fetching CoinMarketCap API data. %s"
MsgUploadError == "%s was not uploaded to bucket successfully."

\* ------------------------------------------------------------------ state
VARIABLES
    pc,                \* the cell the run is at, or how the run ended
    run,               \* the number of runs started
    exit_code,         \* the status the process exited with (0 while it runs)
    environ,           \* the shell environment of the kernel process
    response,          \* Python variable response
    coin_data_schema,  \* Python variable coin_data_schema
    local_csv,         \* the file /tmp/cmc_data.csv
    local_log,         \* the file coinmarketcap.log
    bucket_csv,        \* the object cryptocurrency-data/cmc_data.csv
    bucket_log,        \* the object config/coinmarketcap.log
    dataset_exists,    \* the dataset cryptocurrency
    coin_data_table,   \* the table cryptocurrency.coin_data
    steps,             \* history: what this run has done so far, in order
    log_calls,         \* history: the messages of this run's logging calls, in order
    query_result       \* the result of query highest_growth_week

vars == <<pc, run, exit_code, environ, response, coin_data_schema, local_csv,
          local_log, bucket_csv, bucket_log, dataset_exists, coin_data_table, steps,
          log_calls, query_result>>

python == <<response, coin_data_schema>>
files == <<local_csv, local_log>>
bucket == <<bucket_csv, bucket_log>>
warehouse == <<dataset_exists, coin_data_table>>

Ended == pc \in {"done", "exited", "error"}

Did(e) == \E i \in DOMAIN steps : steps[i] = e

\* Nothing has run yet: no local files, an empty bucket (but for the
\* configuration object), no dataset.
Init ==
    /\ pc = "cell0"
    /\ run = 1
    /\ exit_code = 0
    /\ environ \in Environments
    /\ response = None
    /\ coin_data_schema = Undefined
    /\ local_csv = NoFile
    /\ local_log = NoFile
    /\ bucket_csv = NoFile
    /\ bucket_log = NoFile
    /\ dataset_exists = FALSE
    /\ coin_data_table = NoTable
    /\ steps = <<>>
    /\ log_calls = <<>>
    /\ query_result = NoResult

\* ------------------------------------------------------------------ cells
\* Imports, globals, basicConfig (the handler opens the log file for
\* appending, creating it), and the script-start line.
Cell0 ==
    /\ pc = "cell0"
    /\ local_log' = LogCall(File(local_log.lines), "INFO", MsgStart, <<>>)
    /\ log_calls' = Append(log_calls, MsgStart)
    /\ pc' = "cell1"
    /\ UNCHANGED <<run, exit_code, environ, python, local_csv, bucket, warehouse, steps, query_result>>

\* api_call: one GET.  A RequestException is printed and swallowed, and the
\* function then returns None.
api_call ==
    \/ /\ response' = None
       /\ steps' = Append(steps, "transport_error")
    \/ /\ response' \in OkResponses \cup ErrorResponses
       /\ steps' = Append(steps, "response")

\* 1. Pull current data.
Cell1 ==
    /\ pc = "cell1"
    /\ api_call
    /\ local_log' = LogCall(local_log, "INFO", MsgStep1, <<>>)
    /\ log_calls' = Append(log_calls, MsgStep1)
    /\ pc' = "cell2"
    /\ UNCHANGED <<run, exit_code, environ, coin_data_schema, local_csv, bucket, warehouse, query_result>>

\* 2. Save as CSV, response is None: response.status_code raises
\* AttributeError, which nothing catches.
Cell2_NoResponse ==
    /\ pc = "cell2"
    /\ response.is_none
    /\ pc' = "error"
    /\ UNCHANGED <<run, exit_code, environ, python, files, bucket, warehouse, steps, log_calls, query_result>>

\* Mutant of Cell2_ApiError: the cell exits with status 1 after logging.
Cell2_ApiError_Exit ==
    /\ pc = "cell2"
    /\ ~response.is_none
    /\ response.status_code # 200
    /\ local_log' = LogCall(local_log, "ERROR", MsgApiError, <<response.error_message>>)
    /\ log_calls' = Append(log_calls, MsgApiError)
    /\ steps' = Append(steps, "api_error")
    /\ exit_code' = 1
    /\ pc' = "exited"
    /\ UNCHANGED <<run, environ, python, local_csv, bucket, warehouse, query_result>>

\* 2. Save as CSV, status other than 200: the error message is logged.
Cell2_ApiError ==
    /\ pc = "cell2"
    /\ ~response.is_none
    /\ response.status_code # 200
    /\ local_log' = LogCall(local_log, "ERROR", MsgApiError, <<response.error_message>>)
    /\ log_calls' = Append(log_calls, MsgApiError)
    /\ steps' = Append(steps, "api_error")
    /\ pc' = "cell3"
    /\ UNCHANGED <<run, exit_code, environ, python, local_csv, bucket, warehouse, query_result>>

\* 2. Save as CSV, status 200: normalize, write the file, keep the schema.
Cell2_Ok ==
    /\ pc = "cell2"
    /\ ~response.is_none
    /\ response.status_code = 200
    /\ LET crypto_data_tbl_df == Snapshot(response.data)
       IN  /\ local_csv' = File(ToCsv(crypto_data_tbl_df))
           /\ coin_data_schema' = [defined |-> TRUE, fields |-> SchemaFromData(crypto_data_tbl_df)]
    /\ local_log' = LogCall(local_log, "INFO", MsgStep2, <<>>)
    /\ log_calls' = Append(log_calls, MsgStep2)
    /\ steps' = Append(steps, "csv")
    /\ pc' = "cell3"
    /\ UNCHANGED <<run, exit_code, environ, response, bucket, warehouse, query_result>>

Cell2 == Cell2_NoResponse \/ Cell2_ApiError \/ Cell2_Ok

\* !gsutil cp src dst: the object is written if the local file exists and
\* the transfer works; a failing command raises nothing in the notebook.
GsutilCp(file, object, works) == IF file.exists /\ works THEN file ELSE object

\* Mutant of Cell3: the failed check is logged but the run goes on.
Cell3_NoExit ==
    /\ pc = "cell3"
    /\ \E works \in BOOLEAN :
         /\ bucket_csv' = GsutilCp(local_csv, bucket_csv, works)
         /\ LET copied == local_csv.exists /\ works
                after == IF copied THEN Append(steps, "copy") ELSE steps
            IN  IF ~bucket_csv'.exists
                THEN /\ local_log' = LogCall(local_log, "ERROR", MsgUploadError, <<csv_file_name>>)
                     /\ log_calls' = Append(log_calls, MsgUploadError)
                     /\ steps' = Append(after, "verify_failed")
                ELSE /\ local_log' = LogCall(local_log, "INFO", MsgStep3, <<>>)
                     /\ log_calls' = Append(log_calls, MsgStep3)
                     /\ steps' = Append(after, "verified")
    /\ pc' = "cell4"
    /\ UNCHANGED <<run, exit_code, environ, python, local_csv, bucket_log, warehouse, query_result>>

\* 3. Upload the CSV, then check that the object exists.
Cell3 ==
    /\ pc = "cell3"
    /\ \E works \in BOOLEAN :
         /\ bucket_csv' = GsutilCp(local_csv, bucket_csv, works)
         /\ LET copied == local_csv.exists /\ works
                after == IF copied THEN Append(steps, "copy") ELSE steps
            IN  IF ~bucket_csv'.exists
                THEN /\ local_log' = LogCall(local_log, "ERROR", MsgUploadError, <<csv_file_name>>)
                     /\ log_calls' = Append(log_calls, MsgUploadError)
                     /\ steps' = Append(after, "verify_failed")
                     /\ exit_code' = 1
                     /\ pc' = "exited"
                ELSE /\ local_log' = LogCall(local_log, "INFO", MsgStep3, <<>>)
                     /\ log_calls' = Append(log_calls, MsgStep3)
                     /\ steps' = Append(after, "verified")
                     /\ exit_code' = exit_code
                     /\ pc' = "cell4"
    /\ UNCHANGED <<run, environ, python, local_csv, bucket_log, warehouse, query_result>>

\* Table.load(source, mode='append', skip_leading_rows=1): the rows of the
\* object after its first line are added to the table's, provided the job
\* works and every row has one value per field; a failed job adds nothing
\* and raises nothing.
LoadAccepted(table, object, works) ==
    works /\ \A i \in DOMAIN Tail(object.lines) : Len(Tail(object.lines)[i]) = Len(table.schema)

Load(table, object, works) ==
    IF LoadAccepted(table, object, works)
    THEN [table EXCEPT !.rows = @ \o Tail(object.lines)]
    ELSE table

\* Table.create(schema, overwrite=True): an existing table is deleted first.
CreateTable(schema) == [exists |-> TRUE, schema |-> schema, rows |-> <<>>]

\* Mutant of Cell4: the warehouse step is gated on having a response, not on
\* its status.
Cell4_AnyStatus ==
    /\ pc = "cell4"
    /\ IF ~response.is_none
       THEN \E works \in BOOLEAN :
              LET created == CreateTable(coin_data_schema.fields)
                  loaded == Load(created, bucket_csv, works)
              IN  /\ dataset_exists' = TRUE
                  /\ coin_data_table' = loaded
                  /\ steps' = steps \o <<"dataset", "table",
                                         IF LoadAccepted(created, bucket_csv, works)
                                         THEN "load" ELSE "load_failed",
                                         "script_end">>
       ELSE /\ UNCHANGED warehouse
            /\ steps' = Append(steps, "script_end")
    /\ local_log' = LogCall(LogCall(local_log, "INFO", MsgStep4, <<>>), "INFO", MsgEnd, <<>>)
    /\ log_calls' = log_calls \o <<MsgStep4, MsgEnd>>
    /\ pc' = "cell5"
    /\ UNCHANGED <<run, exit_code, environ, python, local_csv, bucket, query_result>>

\* 4. Create the dataset and the table and load the object, if the status
\* was 200; then the step-4 and script-end lines.
Cell4 ==
    /\ pc = "cell4"
    /\ IF response.status_code = 200
       THEN \E works \in BOOLEAN :
              LET created == CreateTable(coin_data_schema.fields)
                  loaded == Load(created, bucket_csv, works)
              IN  /\ dataset_exists' = TRUE
                  /\ coin_data_table' = loaded
                  /\ steps' = steps \o <<"dataset", "table",
                                         IF LoadAccepted(created, bucket_csv, works)
                                         THEN "load" ELSE "load_failed",
                                         "script_end">>
       ELSE /\ UNCHANGED warehouse
            /\ steps' = Append(steps, "script_end")
    /\ local_log' = LogCall(LogCall(local_log, "INFO", MsgStep4, <<>>), "INFO", MsgEnd, <<>>)
    /\ log_calls' = log_calls \o <<MsgStep4, MsgEnd>>
    /\ pc' = "cell5"
    /\ UNCHANGED <<run, exit_code, environ, python, local_csv, bucket, query_result>>

\* Transfer the log file to the bucket.
Cell5 ==
    /\ pc = "cell5"
    /\ \E works \in BOOLEAN :
         /\ bucket_log' = GsutilCp(local_log, bucket_log, works)
         /\ steps' = IF local_log.exists /\ works THEN Append(steps, "log_copy") ELSE steps
    /\ pc' = "cell6"
    /\ UNCHANGED <<run, exit_code, environ, python, files, bucket_csv, warehouse, log_calls, query_result>>

\* rm -f of what a shell variable expands to: with the variable unset there
\* is no operand and nothing is removed.
RmF(file, path, operand) == IF operand = path THEN NoFile ELSE file

\* %%bash: rm -f $local_path; rm -f $log_file_name
Cell6 ==
    /\ pc = "cell6"
    /\ local_csv' = RmF(local_csv, local_path, environ.local_path)
    /\ local_log' = RmF(local_log, log_file_name, environ.log_file_name)
    /\ steps' = Append(steps, "cleanup")
    /\ pc' = "done"
    /\ UNCHANGED <<run, exit_code, environ, python, bucket, warehouse, log_calls, query_result>>

\* The notebook is run again, in a fresh kernel.
StartRun ==
    /\ Ended
    /\ run < MaxRuns
    /\ run' = run + 1
    /\ pc' = "cell0"
    /\ exit_code' = 0
    /\ response' = None
    /\ coin_data_schema' = Undefined
    /\ steps' = <<>>
    /\ log_calls' = <<>>
    /\ query_result' = NoResult
    /\ UNCHANGED <<environ, files, bucket, warehouse>>

\* ---------------------------------------------------------------- queries
\* The columns query highest_growth_week names.
C_name == K_name
C_quote_USD_percent_change_7d == K_quote \o <<"_">> \o K_USD \o <<"_">> \o K_percent_change_7d

QueryLimit == 5

DigitValue(c) == CHOOSE d \in 0..9 : Digit(d) = c

RECURSIVE ParseNat(_)
\* the number a field of an INTEGER column is read as
ParseNat(text) ==
    IF text = <<>> THEN 0
    ELSE 10 * ParseNat(SubSeq(text, 1, Len(text) - 1)) + DigitValue(text[Len(text)])

\* a < b in a column of the given type: numbers by value, strings by code
\* point.
ValueLess(type, a, b) ==
    IF type = "INTEGER" THEN ParseNat(a) < ParseNat(b) ELSE LexLess(a, b)

HasColumn(schema, name) == \E j \in DOMAIN schema : schema[j].name = name
ColumnIndex(schema, name) == CHOOSE j \in DOMAIN schema : schema[j].name = name

RECURSIVE PermsOf(_)
\* the orders in which the rows with indices in S can be listed
PermsOf(S) ==
    IF S = {} THEN {<<>>}
    ELSE UNION {{<<x>> \o q : q \in PermsOf(S \ {x})} : x \in S}

\* Mutant of OrderByDesc: the column is compared as numbers whatever its type.
OrderByDesc_Numeric(table, j) ==
    {q \in PermsOf(DOMAIN table.rows) :
        \A a, b \in DOMAIN q :
            a < b => ~ValueLess("INTEGER", table.rows[q[a]][j], table.rows[q[b]][j])}

\* order by <column j> desc: every listing of the rows in which no row comes
\* before one with a greater value; rows with equal values come in any order.
OrderByDesc(table, j) ==
    {q \in PermsOf(DOMAIN table.rows) :
        \A a, b \in DOMAIN q :
            a < b => ~ValueLess(table.schema[j].type, table.rows[q[a]][j], table.rows[q[b]][j])}

\* limit n
Limit(q, n) == SubSeq(q, 1, IF Len(q) < n THEN Len(q) ELSE n)

\* %%bq query -n highest_growth_week:
\*   select name from cryptocurrency.coin_data
\*   order by quote_USD_percent_change_7d desc limit 5
highest_growth_week ==
    /\ pc = "done"
    /\ ~query_result.ran
    /\ IF /\ coin_data_table.exists
          /\ HasColumn(coin_data_table.schema, C_name)
          /\ HasColumn(coin_data_table.schema, C_quote_USD_percent_change_7d)
       THEN LET jn == ColumnIndex(coin_data_table.schema, C_name)
                jc == ColumnIndex(coin_data_table.schema, C_quote_USD_percent_change_7d)
            IN  \E q \in OrderByDesc(coin_data_table, jc) :
                   query_result' =
                      [ran |-> TRUE, ok |-> TRUE,
                       names |-> Limit([a \in DOMAIN q |-> coin_data_table.rows[q[a]][jn]],
                                       QueryLimit)]
       ELSE query_result' = [ran |-> TRUE, ok |-> FALSE, names |-> <<>>]
    /\ UNCHANGED <<pc, run, exit_code, environ, python, files, bucket, warehouse, steps, log_calls>>

Next == Cell0 \/ Cell1 \/ Cell2 \/ Cell3 \/ Cell4 \/ Cell5 \/ Cell6 \/ StartRun

Spec == Init /\ [][Next]_vars

\* ------------------------------------------------- the normalizer alone
\* Cell 2 on every data array within the bounds.
InitNorm ==
    /\ pc = "cell2"
    /\ run = 1
    /\ exit_code = 0
    /\ environ \in Environments
    /\ response \in {[is_none |-> FALSE, status_code |-> 200, error_message |-> "", data |-> d] :
                        d \in DataArrays}
    /\ coin_data_schema = Undefined
    /\ local_csv = NoFile
    /\ local_log = File(<<>>)
    /\ bucket_csv = NoFile
    /\ bucket_log = NoFile
    /\ dataset_exists = FALSE
    /\ coin_data_table = NoTable
    /\ steps = <<"response">>
    /\ log_calls = <<MsgStart, MsgStep1>>
    /\ query_result = NoResult

NextNorm == Cell2_Ok

SpecNorm == InitNorm /\ [][NextNorm]_vars

\* ------------------------------------------- column sanitization alone
\* Cell 2 on a single record with a single leaf, whose path is one or two
\* keys over the characters that matter to strip and replace.
SanChars == {" ", "\t", ".", "_", "d"}
KeyTexts == SeqsUpTo(SanChars, MaxKeyLen)
KeyPaths == {<<k>> : k \in KeyTexts} \cup {<<k1, k2>> : k1, k2 \in KeyTexts}

InitSan ==
    /\ pc = "cell2"
    /\ run = 1
    /\ exit_code = 0
    /\ environ \in Environments
    /\ response \in {[is_none |-> FALSE, status_code |-> 200, error_message |-> "",
                      data |-> <<(p :> 1)>>] : p \in KeyPaths}
    /\ coin_data_schema = Undefined
    /\ local_csv = NoFile
    /\ local_log = File(<<>>)
    /\ bucket_csv = NoFile
    /\ bucket_log = NoFile
    /\ dataset_exists = FALSE
    /\ coin_data_table = NoTable
    /\ steps = <<"response">>
    /\ log_calls = <<MsgStart, MsgStep1>>
    /\ query_result = NoResult

NextSan == Cell2_Ok

SpecSan == InitSan /\ [][NextSan]_vars

\* ------------------------------------------- the pipeline, then the query
\* One run from cell 2 on a 200 response, then query highest_growth_week.  The
\* data are the first n assets of the list below, asset i named i, each with
\* its 7-day change or without one.
Changes7d == <<5, 100, 50, 20, 10, 1>>

QueryAsset(i, has) ==
    IF has THEN (P_name :> i) @@ (P_percent_change_7d :> Changes7d[i]) ELSE (P_name :> i)

QueryData ==
    UNION {{[i \in 1..n |-> QueryAsset(i, i \in S)] : S \in SUBSET (1..n)} : n \in 1..Len(Changes7d)}

InitQuery ==
    /\ pc = "cell2"
    /\ run = 1
    /\ exit_code = 0
    /\ environ \in Environments
    /\ response \in {[is_none |-> FALSE, status_code |-> 200, error_message |-> "", data |-> d] :
                        d \in QueryData}
    /\ coin_data_schema = Undefined
    /\ local_csv = NoFile
    /\ local_log = File(<<>>)
    /\ bucket_csv = NoFile
    /\ bucket_log = NoFile
    /\ dataset_exists = FALSE
    /\ coin_data_table = NoTable
    /\ steps = <<"response">>
    /\ log_calls = <<MsgStart, MsgStep1>>
    /\ query_result = NoResult

NextQuery == Cell2_Ok \/ Cell3 \/ Cell4 \/ Cell5 \/ Cell6 \/ highest_growth_week

SpecQuery == InitQuery /\ [][NextQuery]_vars

\* ----------------------------------------------------------------- claims
FailureEvents == {"transport_error", "api_error", "verify_failed"}
WarehouseEvents == {"dataset", "table", "load", "load_failed"}
GatedEvents == {"csv", "copy"} \cup WarehouseEvents

StepOf(e) ==
    CASE e \in {"transport_error", "response"} -> 1
      [] e \in {"api_error", "csv"} -> 2
      [] e \in {"copy", "verify_failed", "verified"} -> 3
      [] e \in WarehouseEvents \cup {"script_end"} -> 4
      [] OTHER -> 5

Last(q) == q[Len(q)]

\* C1 (as claimed): within a run the steps happen in the order fetch, CSV,
\* upload, warehouse, and after a failure (transport error, non-200 answer,
\* failed upload check) the run writes no CSV, copies nothing to the bucket,
\* and creates or loads no table.
C1_SequentialAndGated ==
    \A i, j \in DOMAIN steps :
        i < j => /\ StepOf(steps[i]) <= StepOf(steps[j])
                 /\ steps[i] \in FailureEvents => steps[j] \notin GatedEvents

C3_FullRefresh ==
    Did("load") => coin_data_table.rows = Tail(ToCsv(Snapshot(response.data)))

\* C4: when the API answers with a status other than 200, cell 2 logs an
\* error carrying the response's status.error_message, and from then on the
\* run creates no dataset, creates and loads no table, writes no CSV and
\* defines no schema: no step of the run changes the warehouse.
C4_NonOkState ==
    (~response.is_none /\ response.status_code # 200 /\ pc # "cell2") =>
        /\ Did("api_error")
        /\ pc = "cell3" =>
              /\ local_log.lines # <<>>
              /\ Last(local_log.lines) =
                    [levelname |-> "ERROR", msg |-> MsgApiError,
                     args |-> <<response.error_message>>]
        /\ ~Did("csv")
        /\ \A e \in WarehouseEvents : ~Did(e)
        /\ ~coin_data_schema.defined

C4_NonOkStep ==
    (~response.is_none /\ response.status_code # 200 /\ ~Ended) =>
        /\ UNCHANGED warehouse
        /\ UNCHANGED coin_data_schema
        /\ local_csv' = local_csv \/ local_csv' = NoFile

C4_ApiErrorLeavesWarehouse == [](C4_NonOkState) /\ [][C4_NonOkStep]_vars

C4_Witness == pc = "done" /\ Did("api_error") /\ coin_data_table.rows # <<>>

\* C5 (as claimed): after a transport error the run log holds an error
\* entry, and the run writes no CSV, uploads nothing and does not touch the
\* table.
C5_TransportErrorLogged ==
    (Did("transport_error") /\ Ended) =>
        /\ \E i \in DOMAIN local_log.lines : local_log.lines[i].levelname = "ERROR"
        /\ \A e \in GatedEvents : ~Did(e)

\* C6 (as claimed): however a run ends, neither /tmp/cmc_data.csv nor
\* coinmarketcap.log exists any more.
C6_LocalFilesRemoved == Ended => ~local_csv.exists /\ ~local_log.exists

AllStepsSucceeded ==
    Did("response") /\ Did("csv") /\ Did("copy") /\ Did("verified") /\ Did("load")

RunLines == <<MsgStart, MsgStep1, MsgStep2, MsgStep3, MsgStep4, MsgEnd>>

\* C7 (as claimed): after a run in which all four steps succeeded and the
\* log was uploaded, the uploaded log ends with the script-start line, the
\* four step lines and the script-end line, in this order.
C7_UploadedLogLines ==
    (AllStepsSucceeded /\ Did("log_copy")) =>
        LET n == Len(bucket_log.lines)
        IN  /\ n >= Len(RunLines)
            /\ \A k \in DOMAIN RunLines :
                  bucket_log.lines[n - Len(RunLines) + k].msg = RunLines[k]

FlatKeys(rec) == {JoinSep(p) : p \in DOMAIN rec}

\* C9: for a 200 response with N asset objects the saved CSV has N data
\* rows under its header, and the set of its column names is the union over
\* the objects of their flattened keys (joined with '.'), each stripped and
\* with every '.' replaced by '_'.
C9_RowsAndColumns ==
    Did("csv") =>
        LET lines == local_csv.lines
            data == response.data
        IN  /\ Len(lines) = Len(data) + 1
            /\ {lines[1][j] : j \in DOMAIN lines[1]} =
                  {Replace(Strip(k), ".", "_") : k \in UNION {FlatKeys(data[i]) : i \in DOMAIN data}}

C9_Witness ==
    /\ Did("csv")
    /\ Len(response.data) = 2
    /\ FlatKeys(response.data[1]) \ FlatKeys(response.data[2]) # {}
    /\ FlatKeys(response.data[2]) \ FlatKeys(response.data[1]) # {}
    /\ P_price \in DOMAIN response.data[1]

\* C10: every row of the saved CSV has one value per column; in the column of
\* a flattened key the row's record has, the value is the record's, and in
\* the column of a key it lacks (and another record has) the value is the
\* empty string; no column is dropped.
C10_MissingIsEmpty ==
    Did("csv") =>
        LET lines == local_csv.lines
            data == response.data
            keys == UNION {FlatKeys(data[i]) : i \in DOMAIN data}
            column == json_normalize(data).columns
        IN  /\ Len(lines[1]) = Cardinality(keys)
            /\ {column[j] : j \in DOMAIN column} = keys
            /\ \A i \in DOMAIN data :
                  /\ Len(lines[i + 1]) = Len(lines[1])
                  /\ \A j \in DOMAIN column :
                        IF column[j] \in FlatKeys(data[i])
                        THEN lines[i + 1][j] = ToStr(Flatten(data[i])[column[j]])
                        ELSE lines[i + 1][j] = <<>>

C10_Witness ==
    /\ Did("csv")
    /\ Len(response.data) = 2
    /\ P_price \in DOMAIN response.data[1]
    /\ P_price \notin DOMAIN response.data[2]
    /\ \E j \in DOMAIN local_csv.lines[1] : local_csv.lines[3][j] = <<>>

\* C11 (as claimed): no two columns of the saved CSV have the same name,
\* whatever the batch, colliding flattened paths included.
C11_UniqueColumnNames ==
    Did("csv") =>
        LET header == local_csv.lines[1]
        IN  \A j, k \in DOMAIN header : header[j] = header[k] => j = k

\* C12: a column name of the saved CSV is a fixed point of the
\* sanitization (sanitizing it again changes nothing) and holds no '.'.
C12_SanitizeIdempotent ==
    Did("csv") =>
        LET header == local_csv.lines[1]
        IN  \A j \in DOMAIN header :
              /\ Replace(Strip(header[j]), ".", "_") = header[j]
              /\ \A i \in DOMAIN header[j] : header[j][i] # "."

C12_Witness ==
    /\ Did("csv")
    /\ \E p \in DOMAIN response.data[1] :
          /\ Len(p) = 2
          /\ p[1] = <<" ", ".">>
          /\ p[2] = <<".", "\t">>
    /\ local_csv.lines[1] = <<<<"_", "_", "_">>>>

\* C14 (as claimed): when a run has passed the existence check and issued
\* the load, the object at the bucket path was copied there by this run and
\* is the CSV that cell 2 of this run wrote.
C14_LoadReadsThisRunsCsv ==
    (Did("verified") /\ (Did("load") \/ Did("load_failed"))) =>
        /\ Did("csv")
        /\ Did("copy")
        /\ bucket_csv = File(ToCsv(Snapshot(response.data)))

\* The 7-day change of asset i of the response; an asset without one ranks
\* below every asset that has one.
Change7d(i) ==
    IF P_percent_change_7d \in DOMAIN response.data[i]
    THEN response.data[i][P_percent_change_7d] ELSE -1

\* C13 (as claimed): on the table a run has loaded, query
\* highest_growth_week returns the names of the (up to) 5 assets with the
\* numerically highest 7-day change, highest first, also when some asset has
\* no 7-day change.
C13_TopFiveNumeric ==
    (query_result.ran /\ query_result.ok /\ Did("copy") /\ Did("load")) =>
        LET names == query_result.names
            n == Len(response.data)
            asset(k) == ParseNat(names[k])
        IN  /\ Len(names) = IF n < QueryLimit THEN n ELSE QueryLimit
            /\ \A k, l \in DOMAIN names : k < l => Change7d(asset(k)) >= Change7d(asset(l))
            /\ \A k \in DOMAIN names : \A i \in 1..n :
                  (\A l \in DOMAIN names : asset(l) # i) => Change7d(asset(k)) >= Change7d(i)

Called(msg) == \E i \in DOMAIN log_calls : log_calls[i] = msg

\* C15 (as claimed): the run issues the 'Step k ... Complete' line only
\* when step k has succeeded in this run: step 1 after a response was
\* obtained, step 2 after the CSV was written, step 3 after the object was
\* verified, step 4 after the table was created and the load issued.
C15_StepLinesOnlyOnSuccess ==
    /\ Called(MsgStep1) => Did("response")
    /\ Called(MsgStep2) => Did("csv")
    /\ Called(MsgStep3) => Did("verified")
    /\ Called(MsgStep4) => Did("table") /\ (Did("load") \/ Did("load_failed"))
====
